---- MODULE Spec2Model ----
(***************************************************************************)
(* Plumage: the pixel buffer (pixmap.rs), the geometry primitives          *)
(* (coords.rs), the colors (color.rs) and the image generator              *)
(* (generate.rs), as a state machine.                                      *)
(*                                                                         *)
(* Float (f32) is modelled as binary fixed point: a finite value is an     *)
(* integer count of 1/Scale units, and NaN and the infinities are values   *)
(* of their own.  Arithmetic rounds to the nearest representable value.    *)
(* The exponent range of f32 (overflow to infinity of a finite product)    *)
(* is not modelled.                                                        *)
(***************************************************************************)
EXTENDS Integers, Sequences, FiniteSets, TLC

\* ------------------------------------------------------------------ bounds

\* Number of fraction bits of the fixed-point model of Float.
ScaleBits == 4
\* Largest width and height of a pixmap built directly (pixmap operations).
MaxPixW == 5
MaxPixH == 2
\* Largest number of checked stores into a directly built pixmap.
MaxStores == 2

Scale == 2 ^ ScaleBits

\* ------------------------------------------------------------------- Float

Fin(v) == [cls |-> "fin", v |-> v]
NaN == [cls |-> "nan", v |-> 0]
Inf(s) == [cls |-> "inf", v |-> s]

\* The Float of an integer (`n as Float`, and literals such as 255.0).
F(n) == Fin(n * Scale)

IsNaN(a) == a.cls = "nan"
IsFin(a) == a.cls = "fin"
IsInf(a) == a.cls = "inf"

Abs(n) == IF n < 0 THEN -n ELSE n
Sign(n) == IF n < 0 THEN -1 ELSE IF n > 0 THEN 1 ELSE 0

\* n / d (d > 0) rounded to the nearest integer, halves away from zero.
RoundDiv(n, d) == Sign(n) * ((2 * Abs(n) + d) \div (2 * d))

\* a + b
FAdd(a, b) ==
    IF IsNaN(a) \/ IsNaN(b) THEN NaN
    ELSE IF IsInf(a) /\ IsInf(b) THEN (IF a.v = b.v THEN a ELSE NaN)
    ELSE IF IsInf(a) THEN a
    ELSE IF IsInf(b) THEN b
    ELSE Fin(a.v + b.v)

\* -a
FNeg(a) == IF IsNaN(a) THEN NaN ELSE [cls |-> a.cls, v |-> -a.v]

\* a * b
FMul(a, b) ==
    IF IsNaN(a) \/ IsNaN(b) THEN NaN
    ELSE IF IsInf(a) \/ IsInf(b)
         THEN (IF a.v = 0 \/ b.v = 0 THEN NaN ELSE Inf(Sign(a.v) * Sign(b.v)))
    ELSE Fin(RoundDiv(a.v * b.v, Scale))

\* a / b
FDiv(a, b) ==
    IF IsNaN(a) \/ IsNaN(b) THEN NaN
    ELSE IF IsInf(a) THEN (IF IsInf(b) THEN NaN
                           ELSE Inf(a.v * (IF b.v < 0 THEN -1 ELSE 1)))
    ELSE IF IsInf(b) THEN Fin(0)
    ELSE IF b.v = 0 THEN (IF a.v = 0 THEN NaN ELSE Inf(Sign(a.v)))
    ELSE Fin(Sign(b.v) * RoundDiv(a.v * Scale, Abs(b.v)))

\* a < b and a > b: false when either side is NaN.
FLt(a, b) ==
    IF IsNaN(a) \/ IsNaN(b) THEN FALSE
    ELSE IF IsInf(a) THEN a.v < 0 /\ ~(IsInf(b) /\ b.v < 0)
    ELSE IF IsInf(b) THEN b.v > 0
    ELSE a.v < b.v

FGt(a, b) == FLt(b, a)

\* f32::clamp: NaN stays NaN, everything else is brought into [lo, hi].
FClamp(a, lo, hi) ==
    IF IsNaN(a) THEN NaN
    ELSE IF FLt(a, lo) THEN lo
    ELSE IF FGt(a, hi) THEN hi
    ELSE a

RECURSIVE SqrtSearch(_, _, _)
\* The largest k in lo..hi with k * k <= n (lo * lo <= n).
SqrtSearch(n, lo, hi) ==
    IF lo >= hi THEN lo
    ELSE LET mid == (lo + hi + 1) \div 2
         IN IF mid * mid <= n THEN SqrtSearch(n, mid, hi)
            ELSE SqrtSearch(n, lo, mid - 1)

\* sqrt(n) rounded to the nearest integer (n >= 0).  No root of a number
\* the model holds exceeds 46340.
RoundSqrt(n) ==
    LET k == SqrtSearch(n, 0, IF n < 46340 THEN n ELSE 46340)
    IN IF n - k * k > k THEN k + 1 ELSE k

RECURSIVE IntPow(_, _)
\* a multiplied n times with itself (n >= 0), rounding after every product.
IntPow(a, n) == IF n = 0 THEN F(1) ELSE FMul(a, IntPow(a, n - 1))

\* f32::powf, for an exponent that is an integer or one half (the exponents
\* the model draws); the special cases are those of IEEE 754 pow.
FPowf(a, p) ==
    IF IsFin(p) /\ p.v = 0 THEN F(1)
    ELSE IF a = F(1) THEN F(1)
    ELSE IF IsNaN(a) \/ IsNaN(p) THEN NaN
    ELSE IF IsInf(p)
         THEN (IF IsFin(a) /\ Abs(a.v) = Scale THEN F(1)
               ELSE IF (IsFin(a) /\ Abs(a.v) < Scale) = (p.v < 0)
                    THEN Inf(1) ELSE Fin(0))
    ELSE IF 2 * p.v = Scale
         THEN (IF IsInf(a) THEN (IF a.v > 0 THEN Inf(1) ELSE NaN)
               ELSE IF a.v < 0 THEN NaN
               ELSE Fin(RoundSqrt(a.v * Scale)))
    ELSE LET n == Abs(p.v) \div Scale
             odd == n % 2 = 1
             pos == IF IsInf(a)
                    THEN Inf(IF a.v < 0 /\ odd THEN -1 ELSE 1)
                    ELSE IntPow(a, n)
         IN IF p.v > 0 THEN pos ELSE FDiv(F(1), pos)

\* ------------------------------------------------------------------- Color

Color(r, g, b) == [red |-> r, green |-> g, blue |-> b]

BLACK == Color(Fin(0), Fin(0), Fin(0))

ColorPowf(c, n) == Color(FPowf(c.red, n), FPowf(c.green, n), FPowf(c.blue, n))

ColorClamp(c, lo, hi) ==
    Color(FClamp(c.red, lo, hi), FClamp(c.green, lo, hi), FClamp(c.blue, lo, hi))

ColorAdd(a, b) ==
    Color(FAdd(a.red, b.red), FAdd(a.green, b.green), FAdd(a.blue, b.blue))

ColorMul(a, k) == Color(FMul(a.red, k), FMul(a.green, k), FMul(a.blue, k))

ColorDiv(a, k) == Color(FDiv(a.red, k), FDiv(a.green, k), FDiv(a.blue, k))

\* ---------------------------------------------------------------- geometry

Dimensions(w, h) == [width |-> w, height |-> h]

Position(x, y) == [x |-> x, y |-> y]

ZERO == Position(0, 0)

\* Dimensions::count
Count(d) == d.width * d.height

\* Dimensions::for_each: the positions in the order the callback sees them.
ForEach(d) ==
    [i \in 1 .. Count(d) |-> Position((i - 1) % d.width, (i - 1) \div d.width)]

Min(a, b) == IF a <= b THEN a ELSE b

\* Dimensions::min
DimMin(a, b) == Dimensions(Min(a.width, b.width), Min(a.height, b.height))

\* Position + Position, Position - Position, Dimensions::from(Position)
PosAdd(a, b) == Position(a.x + b.x, a.y + b.y)
PosSub(a, b) == Position(a.x - b.x, a.y - b.y)
DimFrom(p) == Dimensions(p.x, p.y)

\* ------------------------------------------------------------------- state

VARIABLES
    params,     \* the Params handed to Generator::new
    pc,         \* where the program stands
    pix,        \* the Pixmap (Generator.data): [dimensions, data]
    rng,        \* the ChaChaRng: its seed and the number of values drawn
    cursor,     \* fill: how many positions Dimensions::for_each has visited
    bgr,        \* the encoded pixel array
    calls,      \* history: what the sink returned to each call, in order
    out,        \* the chunks the sink has accepted, in order
    result,     \* what generate_with returned
    written,    \* history: the positions the fill pass has written, in order
    draws,      \* history: the values drawn from the rng, in order
    stages,     \* history: the steps of the generator completed, in order
    stores,     \* how many checked stores a directly built pixmap has seen
    runs,       \* history: the earlier runs of the generator, each with its
                \* params, the chunks its sink accepted and its result
    reads,      \* history: for every pixel the fill pass has computed, the
                \* offsets avg_neighbor_unchecked walked and the neighbors
                \* it read, in order
    asked,      \* history: the positions handed to IndexMut, in order
    hdr         \* generate_with on its machine words: dim, bgr.len(), size

vars == <<params, pc, pix, rng, cursor, bgr, calls, out, result, written,
          draws, stages, stores, runs, reads, asked, hdr>>

genVars == <<params, rng, cursor, calls, out, result, written, draws, stages,
             runs, reads, hdr>>

\* generate_with has not returned.
NoResult == [kind |-> "none", err |-> "-"]

\* generate_with has computed none of its machine words.
NoHeader ==
    [width |-> <<0, 0, 0, 0>>, height |-> <<0, 0, 0, 0>>,
     len |-> <<0, 0, 0, 0>>, size |-> <<0, 0>>]

\* ------------------------------------------------------------------ Pixmap

\* No pixmap: before Pixmap::new, and after drop(self.data).
NoPixmap == [dimensions |-> Dimensions(0, 0), data |-> <<>>]

\* Pixmap::new
PixmapNew(d) == [dimensions |-> d, data |-> [i \in 1 .. Count(d) |-> BLACK]]

\* An index that takes the height for the length of a row.
PosIndexByHeight(pm, pos) == pos.y * pm.dimensions.height + pos.x

\* Pixmap::pos_index (an index from 0)
PosIndex(pm, pos) == pos.y * pm.dimensions.width + pos.x

\* Vec's bounds check, as Index and IndexMut apply it to a usize.
InVec(pm, index) == index \in 0 .. Len(pm.data) - 1

\* Pixmap::get_unchecked; outside the vector the read is undefined, and the
\* model gives it a value no stored color has.
GetUnchecked(pm, pos) ==
    IF InVec(pm, PosIndex(pm, pos)) THEN pm.data[PosIndex(pm, pos) + 1]
    ELSE Color(NaN, NaN, NaN)

\* *pm.get_unchecked_mut(pos) = c and pm[pos] = c, for an index in the vector
PixmapStore(pm, pos, c) ==
    [pm EXCEPT !.data = [pm.data EXCEPT ![PosIndex(pm, pos) + 1] = c]]

\* usize::div_ceil
DivCeil(a, b) == (a + b - 1) \div b

\* A row size rounded down instead of up.
RowSizeRoundedDown(width) == ((width * 3) \div 4) * 4

\* to_bgr_unchecked: row_size
RowSize(width) == DivCeil(width * 3, 4) * 4

\* to_bgr_unchecked: padding
Padding(width) == SubSeq(<<0, 0, 0, 0>>, 1, RowSize(width) - width * 3)

\* f32::round: to the nearest integer, halves away from zero
FRound(a) == IF IsFin(a) THEN Fin(RoundDiv(a.v, Scale) * Scale) ELSE a

\* to_bgr_unchecked: conv.  to_int_unchecked is undefined for a value that is
\* NaN, infinite or outside u8; `ub` is what the build makes of it.
Conv(n, ub) ==
    LET r == FRound(FMul(n, F(255)))
    IN IF IsFin(r) /\ r.v >= 0 /\ r.v <= 255 * Scale THEN r.v \div Scale
       ELSE ub

\* What undefined conversions may produce.
UBBytes == {0, 255}

RECURSIVE BgrLoop(_, _, _, _, _)
\* to_bgr_unchecked: the loop over the colors from the k-th on, with the
\* counter at i and the bytes so far in acc.
BgrLoop(pm, k, i, acc, ub) ==
    IF k > Len(pm.data) THEN acc
    ELSE LET color == pm.data[k]
             hit == i + 1 = pm.dimensions.width
             padded == IF hit THEN acc \o Padding(pm.dimensions.width) ELSE acc
         IN BgrLoop(pm, k + 1, IF hit THEN 0 ELSE i + 1,
                    padded \o <<Conv(color.blue, ub), Conv(color.green, ub),
                                Conv(color.red, ub)>>,
                    ub)

\* Pixmap::to_bgr_unchecked
ToBgrUnchecked(pm, ub) == BgrLoop(pm, 1, 0, <<>>, ub)

\* ------------------------------------------------------------------ Params

\* Spread::Square { width } and Spread::QuarterCircle { radius }
Square(width) == [kind |-> "Square", size |-> width]
QuarterCircle(radius) == [kind |-> "QuarterCircle", size |-> radius]

\* Bounds that leave out the column and the row of the pixel itself.
SpreadBoundsExact(spread) == Dimensions(spread.size, spread.size)

\* Spread::bounds
SpreadBounds(spread) == Dimensions(spread.size + 1, spread.size + 1)

\* The fields of a generator that has not been given its Params.
NoParams ==
    [dimensions |-> Dimensions(0, 0), spread |-> Square(0),
     distance_power |-> Fin(0), random_power |-> Fin(0), random_max |-> Fin(0),
     gamma |-> Fin(0), start_color |-> BLACK, seed |-> 0]

\* --------------------------------------------------------------------- rng

\* Bits of one word of the generator's output stream.
WordBits == ScaleBits + 2

\* ChaChaRng::from_seed
FromSeed(seed) == [seed |-> seed, pos |-> 0]

\* The word the stream of `seed` holds at position n: a fixed function of the
\* seed and the position, standing for the ChaCha block function.
StreamWord(seed, n) ==
    ((seed * 37 + 11) * (n * 13 + 5) + n * n * 7 + seed * 3) % (2 ^ WordBits)

\* rng.gen::<Float>(): the high bits of the next word, as a multiple of
\* 1/Scale in [0, 1).
GenFloat(g) == Fin(StreamWord(g.seed, g.pos) \div (2 ^ (WordBits - ScaleBits)))

\* rng.gen::<bool>(): the sign bit of the next word.
GenBool(g) == StreamWord(g.seed, g.pos) >= 2 ^ (WordBits - 1)

\* The generator after one value has been drawn.
Advance(g) == [g EXCEPT !.pos = g.pos + 1]

\* ------------------------------------------- pixmap operations, on their own

\* Colors a caller stores: channels in [0, 1], all different and none zero.
Palette ==
    { Color(Fin(Scale), Fin(Scale \div 2), Fin(Scale \div 4)),
      Color(Fin((3 * Scale) \div 4), Fin(Scale \div 8), Fin(Scale \div 16)) }

InitPix ==
    /\ pc = "pix_none"
    /\ pix = NoPixmap
    /\ params = NoParams
    /\ rng = FromSeed(0)
    /\ cursor = 0
    /\ bgr = <<>>
    /\ calls = <<>>
    /\ out = <<>>
    /\ result = NoResult
    /\ written = <<>>
    /\ draws = <<>>
    /\ stages = <<>>
    /\ stores = 0
    /\ runs = <<>>
    /\ reads = <<>>
    /\ asked = <<>>
    /\ hdr = NoHeader

\* let pm = Pixmap::new(d)
PixNew(d) ==
    /\ pc = "pix_none"
    /\ pix' = PixmapNew(d)
    /\ pc' = "pix"
    /\ UNCHANGED <<genVars, bgr, stores, asked>>

\* pm[pos] = c (IndexMut): the vector's bounds check panics, or the cell at
\* pos_index(pos) is replaced.
PixIndexMut(pos, c) ==
    /\ pc = "pix"
    /\ stores < MaxStores
    /\ stores' = stores + 1
    /\ asked' = Append(asked, pos)
    /\ IF InVec(pix, PosIndex(pix, pos))
       THEN pix' = PixmapStore(pix, pos, c) /\ pc' = pc
       ELSE pix' = pix /\ pc' = "pix_panicked"
    /\ UNCHANGED <<genVars, bgr>>

\* let bgr = unsafe { pm.to_bgr_unchecked() }
PixToBgr ==
    /\ pc = "pix"
    /\ \E ub \in UBBytes : bgr' = ToBgrUnchecked(pix, ub)
    /\ pc' = "pix_encoded"
    /\ UNCHANGED <<genVars, pix, stores, asked>>

NextPix ==
    \/ \E w \in 0 .. MaxPixW, h \in 0 .. MaxPixH : PixNew(Dimensions(w, h))
    \/ \E x \in 0 .. MaxPixW, y \in 0 .. MaxPixH, c \in Palette :
          PixIndexMut(Position(x, y), c)
    \/ PixToBgr

SpecPix == InitPix /\ [][NextPix]_vars

\* --------------------------------------------------------------- Generator

\* Largest width and height of a generated image and largest spread size the
\* model draws.
MaxW == 2
MaxH == 2
MaxSpread == 2

\* avg_neighbor_unchecked: the closure's early returns.  An offset is used
\* unless it is the zero offset or, for a quarter circle, farther than radius.
Dist(delta) ==
    FPowf(FAdd(FPowf(F(delta.x), F(2)), FPowf(F(delta.y), F(2))),
          Fin(Scale \div 2))

\* An early return that also takes the offsets at the radius itself.
SkippedAtRadius(spread, delta) ==
    \/ delta = ZERO
    \/ spread.kind = "QuarterCircle" /\ ~FLt(Dist(delta), F(spread.size))

\* An early return for the radius only: the zero offset is used.
SkippedOnlyByRadius(spread, delta) ==
    spread.kind = "QuarterCircle" /\ FGt(Dist(delta), F(spread.size))

Skipped(spread, delta) ==
    \/ delta = ZERO
    \/ spread.kind = "QuarterCircle" /\ FGt(Dist(delta), F(spread.size))

\* A window that is not clipped to the position.
WindowUnclipped(spread, pos) == SpreadBounds(spread)

\* avg_neighbor_unchecked: `bounds`, the window of offsets for_each walks.
Window(spread, pos) ==
    DimMin(SpreadBounds(spread), DimFrom(PosAdd(pos, Position(1, 1))))

\* avg_neighbor_unchecked: one call of the closure, for the offset delta.
\* `acc` holds how many offsets have been seen, the sums avg and count and,
\* in got, the reads made so far: the offset, the neighbor read through
\* get_unchecked and the distance.
AvgStep(pm, spread, distance_power, pos, delta, acc) ==
    IF Skipped(spread, delta) THEN [acc EXCEPT !.seen = acc.seen + 1]
    ELSE LET neighbor == PosSub(pos, delta)
             color == GetUnchecked(pm, neighbor)
             weight == FPowf(Dist(delta), distance_power)
         IN [seen |-> acc.seen + 1,
             avg |-> ColorAdd(acc.avg, ColorMul(color, weight)),
             count |-> FAdd(acc.count, weight),
             got |-> Append(acc.got, [delta |-> delta, neighbor |-> neighbor,
                                      dist |-> Dist(delta)])]

RECURSIVE AvgLoop(_, _, _, _, _, _)
\* avg_neighbor_unchecked: bounds.for_each over the offsets not yet seen.
AvgLoop(pm, spread, distance_power, pos, deltas, acc) ==
    IF acc.seen = Len(deltas) THEN acc
    ELSE AvgLoop(pm, spread, distance_power, pos, deltas,
                 AvgStep(pm, spread, distance_power, pos,
                         deltas[acc.seen + 1], acc))

\* avg_neighbor_unchecked up to its last statement: the sums of the loop and
\* the offsets it walked.
AvgSums(pm, spread, distance_power, pos) ==
    LET deltas == ForEach(Window(spread, pos))
        sums == AvgLoop(pm, spread, distance_power, pos, deltas,
                        [seen |-> 0, avg |-> BLACK, count |-> Fin(0),
                         got |-> <<>>])
    IN [avg |-> sums.avg, count |-> sums.count, offsets |-> deltas,
        got |-> sums.got]

\* avg_neighbor_unchecked: its last statement, avg / count.
AvgQuotient(sums) == ColorDiv(sums.avg, sums.count)

\* Generator::avg_neighbor_unchecked
AvgNeighborUnchecked(pm, spread, distance_power, pos) ==
    AvgQuotient(AvgSums(pm, spread, distance_power, pos))

\* random_near: the closure `component`, called with the generator at g.  It
\* draws the magnitude, then the sign.
Component(g, random_power, random_max) ==
    LET n == FMul(FPowf(GenFloat(g), random_power), random_max)
        g1 == Advance(g)
        positive == GenBool(g1)
    IN [value |-> FMul(n, F((IF positive THEN 1 ELSE 0) * 2 - 1)),
        rng |-> Advance(g1),
        log |-> <<[kind |-> "magnitude", at |-> g.pos],
                  [kind |-> "sign", at |-> g1.pos]>>]

\* The draws of one component, named after its channel.
Tagged(log, channel) ==
    [i \in 1 .. Len(log) |->
        [channel |-> channel, kind |-> log[i].kind, at |-> log[i].at]]

\* The components drawn in the order blue, green, red.
RandomNearBlueFirst(g, color, random_power, random_max) ==
    LET b == Component(g, random_power, random_max)
        gr == Component(b.rng, random_power, random_max)
        r == Component(gr.rng, random_power, random_max)
        delta == Color(r.value, gr.value, b.value)
    IN [color |-> ColorClamp(ColorAdd(color, delta), F(0), F(1)),
        rng |-> r.rng,
        log |-> Tagged(b.log, "blue") \o Tagged(gr.log, "green")
                  \o Tagged(r.log, "red")]

\* Generator::random_near: red, green and blue are drawn in this order.
RandomNear(g, color, random_power, random_max) ==
    LET r == Component(g, random_power, random_max)
        gr == Component(r.rng, random_power, random_max)
        b == Component(gr.rng, random_power, random_max)
        delta == Color(r.value, gr.value, b.value)
    IN [color |-> ColorClamp(ColorAdd(color, delta), F(0), F(1)),
        rng |-> b.rng,
        log |-> Tagged(r.log, "red") \o Tagged(gr.log, "green")
                  \o Tagged(b.log, "blue")]

\* A fill that skips no position.
FillSkipsNothing(pos) == FALSE

\* fill: the closure's early return
FillSkips(pos) == pos = ZERO

\* A gamma pass that leaves the first pixel as it is.
GammaDataSkipsSeed(data, gamma) ==
    [i \in 1 .. Len(data) |->
        IF i = 1 THEN data[i] ELSE ColorPowf(data[i], gamma)]

\* Generator::apply_gamma, on the data
GammaData(data, gamma) == [i \in 1 .. Len(data) |-> ColorPowf(data[i], gamma)]

\* ------------------------------------------------------------- the header

\* Machine integers are held in 16-bit limbs, the low limb first: a usize
\* (64 bits) has four, a u32 two.
Limb == 65536

\* The usize of a count the model holds as a number.
Usize(n) == <<n % Limb, (n \div Limb) % Limb, 0, 0>>

\* `u as u32` for a usize u: the low 32 bits.
AsU32(u) == <<u[1], u[2]>>

\* A u32 literal.
U32Lit(n) == <<n % Limb, (n \div Limb) % Limb>>

\* u32 + u32, wrapping on overflow as the release build does.
U32Add(a, b) ==
    <<(a[1] + b[1]) % Limb, (a[2] + b[2] + (a[1] + b[1]) \div Limb) % Limb>>

\* u32::wrapping_neg
WrappingNeg(a) ==
    IF a[1] = 0 THEN <<0, (Limb - a[2]) % Limb>>
    ELSE <<Limb - a[1], Limb - 1 - a[2]>>

\* u32::to_le_bytes and u16::to_le_bytes
U32LE(a) == <<a[1] % 256, a[1] \div 256, a[2] % 256, a[2] \div 256>>
U16LE(n) == <<n % 256, (n \div 256) % 256>>

\* u32 + u32 exceeds u32: a build with overflow checks panics here.
U32Overflows(a, b) == a[2] + b[2] + (a[1] + b[1]) \div Limb >= Limb

\* The eight bytes of a usize, the low byte first, and the usize of eight.
UsizeBytes(u) ==
    [i \in 1 .. 8 |->
        IF i % 2 = 1 THEN u[(i + 1) \div 2] % 256 ELSE u[i \div 2] \div 256]
UsizeOfBytes(d) == [i \in 1 .. 4 |-> d[2 * i - 1] + 256 * d[2 * i]]

RECURSIVE UsizeColumn(_, _, _, _)
\* usize * usize: the products of bytes that fall into column k, from the
\* i-th byte of a on.
UsizeColumn(a, b, k, i) ==
    IF i > k THEN 0 ELSE a[i] * b[k + 1 - i] + UsizeColumn(a, b, k, i + 1)

RECURSIVE UsizeCarry(_, _, _)
\* usize * usize: what the columns below k carry into column k.
UsizeCarry(a, b, k) ==
    IF k = 1 THEN 0
    ELSE (UsizeColumn(a, b, k - 1, 1) + UsizeCarry(a, b, k - 1)) \div 256

\* usize * usize, wrapping (the products the model forms fit a usize).
UsizeMul(u, v) ==
    LET a == UsizeBytes(u)
        b == UsizeBytes(v)
    IN UsizeOfBytes([k \in 1 .. 8 |->
           (UsizeColumn(a, b, k, 1) + UsizeCarry(a, b, k)) % 256])

RECURSIVE UsizeRem(_, _, _)
\* usize / d for a small d: the remainder left after the limbs above the
\* i-th have been divided.
UsizeRem(u, d, i) ==
    IF i = 4 THEN 0 ELSE (UsizeRem(u, d, i + 1) * Limb + u[i + 1]) % d

\* usize::div_ceil by a small d: the quotient, and one more when the
\* division leaves a remainder.
UsizeDivCeil(u, d) ==
    LET q == [i \in 1 .. 4 |-> (UsizeRem(u, d, i) * Limb + u[i]) \div d]
        up == IF UsizeRem(u, d, 0) > 0 THEN 1 ELSE 0
        c == [i \in 1 .. 4 |->
                IF \A j \in 1 .. i - 1 : q[j] = Limb - 1 THEN up ELSE 0]
    IN [i \in 1 .. 4 |-> (q[i] + c[i]) % Limb]

\* A size that leaves the two headers out.
FileSizeOfPixels(pixels) == AsU32(Usize(Len(pixels)))

\* generate_with: size
FileSize(pixels) ==
    U32Add(U32Add(U32Lit(14), U32Lit(40)), AsU32(Usize(Len(pixels))))

\* How many times generate_with calls push when no call fails.
NumChunks == 16

\* The pixel array pushed before the last field of the header.
ChunkPixelsBeforeLast(k, dim, pixels) ==
    CASE k = 1 -> <<66, 77>>
      [] k = 2 -> U32LE(FileSize(pixels))
      [] k = 3 -> <<80, 76, 77, 71>>
      [] k = 4 -> U32LE(U32Add(U32Lit(14), U32Lit(40)))
      [] k = 5 -> U32LE(U32Lit(40))
      [] k = 6 -> U32LE(AsU32(Usize(dim.width)))
      [] k = 7 -> U32LE(WrappingNeg(AsU32(Usize(dim.height))))
      [] k = 8 -> U16LE(1)
      [] k = 9 -> U16LE(24)
      [] k \in 10 .. 11 -> U32LE(U32Lit(0))
      [] k \in 12 .. 13 -> U32LE(U32Lit(96))
      [] k = 14 -> U32LE(U32Lit(0))
      [] k = 15 -> pixels
      [] k = 16 -> U32LE(U32Lit(0))

\* generate_with: the argument of the k-th push of the header, k in 1 .. 15,
\* from the machine words h: dim.width, dim.height and size.
HeaderChunk(k, h) ==
    CASE k = 1 -> <<66, 77>>
      [] k = 2 -> U32LE(h.size)
      [] k = 3 -> <<80, 76, 77, 71>>
      [] k = 4 -> U32LE(U32Add(U32Lit(14), U32Lit(40)))
      [] k = 5 -> U32LE(U32Lit(40))
      [] k = 6 -> U32LE(AsU32(h.width))
      [] k = 7 -> U32LE(WrappingNeg(AsU32(h.height)))
      [] k = 8 -> U16LE(1)
      [] k = 9 -> U16LE(24)
      [] k = 10 -> U32LE(U32Lit(0))
      [] k = 11 -> U32LE(U32Lit(0))
      [] k = 12 -> U32LE(U32Lit(96))
      [] k = 13 -> U32LE(U32Lit(96))
      [] k = 14 -> U32LE(U32Lit(0))
      [] k = 15 -> U32LE(U32Lit(0))

\* generate_with: the argument of the k-th push.
Chunk(k, dim, pixels) ==
    IF k = 16 THEN pixels
    ELSE HeaderChunk(k, [width |-> Usize(dim.width),
                         height |-> Usize(dim.height),
                         len |-> Usize(Len(pixels)),
                         size |-> FileSize(pixels)])

\* The errors a sink may return.
SinkErrors == {"WriteZero", "BrokenPipe"}

\* `?` on the result of push: what generate_with returns for the error e.
Propagate(e) == [kind |-> "Err", err |-> e]

\* A push whose result is dropped.
ContinuesAlways(accepted) == TRUE

\* Whether generate_with goes on to the next statement after a push.
Continues(accepted) == accepted

\* ----------------------------------------------------------------- actions

\* The Params the model draws.
ParamSet ==
    [dimensions : {Dimensions(w, h) : w \in 0 .. MaxW, h \in 0 .. MaxH},
     spread : {Square(n) : n \in 0 .. MaxSpread}
                \cup {QuarterCircle(n) : n \in 0 .. MaxSpread},
     distance_power : {F(-1), F(2)},
     random_power : {F(-1), F(2)},
     random_max : {Fin(0), Fin(Scale \div 4)},
     gamma : {Fin(Scale \div 2), F(2)},
     start_color : Palette,
     seed : {0, 1, 13}]

\* The Params drawn when two generators are run one after the other.
TwoParamSet ==
    {p \in ParamSet :
        /\ p.dimensions.width >= 1 /\ p.dimensions.height = 1
        /\ p.spread.kind = "Square" /\ p.spread.size <= 1
        /\ p.distance_power = F(-1)
        /\ p.random_max = Fin(Scale \div 4)}

\* A generator that has been given nothing but its Params.
Idle ==
    /\ pc = "new"
    /\ pix = NoPixmap
    /\ rng = FromSeed(0)
    /\ cursor = 0
    /\ bgr = <<>>
    /\ calls = <<>>
    /\ out = <<>>
    /\ result = NoResult
    /\ written = <<>>
    /\ draws = <<>>
    /\ stages = <<>>
    /\ stores = 0
    /\ runs = <<>>
    /\ reads = <<>>
    /\ asked = <<>>
    /\ hdr = NoHeader

Init == params \in ParamSet /\ Idle

\* Generator::new(params).  data[Position::new(0, 0)] goes through IndexMut,
\* whose bounds check panics when the vector has no cell 0.
New ==
    /\ pc = "new"
    /\ LET data == PixmapNew(params.dimensions)
       IN IF InVec(data, PosIndex(data, ZERO))
          THEN /\ pix' = PixmapStore(data, ZERO, params.start_color)
               /\ rng' = FromSeed(params.seed)
               /\ stages' = Append(stages, "new")
               /\ pc' = "fill"
          ELSE /\ pc' = "panicked"
               /\ UNCHANGED <<pix, rng, stages>>
    /\ UNCHANGED <<params, cursor, bgr, calls, out, result, written, draws,
                   stores, runs, reads, asked, hdr>>

\* fill: one call of the closure by Dimensions::for_each, which for any
\* position but (0, 0) is fill_pos_unchecked.
FillPos ==
    /\ pc = "fill"
    /\ cursor < Count(pix.dimensions)
    /\ \E pos \in {ForEach(pix.dimensions)[cursor + 1]} :
          IF FillSkips(pos)
          THEN UNCHANGED <<pix, rng, written, draws, reads>>
          ELSE \E sums \in {AvgSums(pix, params.spread,
                                    params.distance_power, pos)} :
               \E neighbor \in {AvgQuotient(sums)} :
               \E near \in {RandomNear(rng, neighbor, params.random_power,
                                       params.random_max)} :
                  /\ pix' = PixmapStore(pix, pos, near.color)
                  /\ rng' = near.rng
                  /\ written' = Append(written, pos)
                  /\ reads' = Append(reads,
                                     [pixel |-> pos, offsets |-> sums.offsets,
                                      got |-> sums.got, count |-> sums.count,
                                      avg |-> neighbor])
                  /\ draws' = draws \o
                       [i \in 1 .. Len(near.log) |->
                           [pixel |-> pos, channel |-> near.log[i].channel,
                            kind |-> near.log[i].kind, at |-> near.log[i].at]]
    /\ cursor' = cursor + 1
    /\ IF cursor + 1 = Count(pix.dimensions)
       THEN pc' = "gamma" /\ stages' = Append(stages, "fill")
       ELSE pc' = "fill" /\ stages' = stages
    /\ UNCHANGED <<params, bgr, calls, out, result, stores, runs, asked, hdr>>

\* apply_gamma
ApplyGamma ==
    /\ pc = "gamma"
    /\ pix' = [pix EXCEPT !.data = GammaData(pix.data, params.gamma)]
    /\ pc' = "encode"
    /\ stages' = Append(stages, "gamma")
    /\ UNCHANGED <<params, rng, cursor, bgr, calls, out, result, written,
                   draws, stores, runs, reads, asked, hdr>>

\* let bgr = unsafe { self.data.to_bgr_unchecked() }; drop(self.data);
\* `dim` keeps the dimensions.
Encode ==
    /\ pc = "encode"
    /\ \E ub \in UBBytes : bgr' = ToBgrUnchecked(pix, ub)
    /\ pix' = [pix EXCEPT !.data = <<>>]
    /\ pc' = "push"
    /\ stages' = Append(stages, "encode")
    /\ UNCHANGED <<params, rng, cursor, calls, out, result, written, draws,
                   stores, runs, reads, asked, hdr>>

\* push(chunk)?: the sink accepts the chunk, or returns an error which
\* generate_with returns at once.
Push ==
    /\ pc = "push"
    /\ \E answer \in {"Ok"} \cup SinkErrors :
          /\ calls' = Append(calls, answer)
          /\ out' = IF answer = "Ok"
                    THEN Append(out, Chunk(Len(calls) + 1, pix.dimensions, bgr))
                    ELSE out
          /\ IF Continues(answer = "Ok")
             THEN IF Len(calls) + 1 = NumChunks
                  THEN result' = [kind |-> "Ok", err |-> "-"] /\ pc' = "done"
                  ELSE result' = result /\ pc' = "push"
             ELSE result' = Propagate(answer) /\ pc' = "done"
    /\ UNCHANGED <<params, pix, rng, cursor, bgr, written, draws, stages,
                   stores, runs, reads, asked, hdr>>

\* The fields of Params other than the dimensions.
OtherFields ==
    {"spread", "distance_power", "random_power", "random_max", "gamma",
     "start_color", "seed"}

\* The fields other than the dimensions in which p and q differ.
Differing(p, q) == {f \in OtherFields : p[f] # q[f]}

\* The Params a second generator is given after one built from `first`: the
\* same dimensions, and the other fields all the same, or all but one the
\* same, or all different.
SecondParamSet(first) ==
    {p \in ParamSet :
        /\ p.dimensions = first.dimensions
        /\ Cardinality(Differing(p, first)) \in {0, 1, Cardinality(OtherFields)}}

\* A second generator, built once the first has returned Ok (its sink took
\* every chunk), from Params with the same dimensions, and run with a sink of
\* its own.
Again ==
    /\ pc = "done"
    /\ result.kind = "Ok"
    /\ runs = <<>>
    /\ runs' = <<[params |-> params, out |-> out, result |-> result]>>
    /\ params' \in SecondParamSet(params)
    /\ pc' = "new"
    /\ pix' = NoPixmap
    /\ bgr' = <<>>
    /\ cursor' = 0
    /\ calls' = <<>>
    /\ out' = <<>>
    /\ result' = NoResult
    /\ written' = <<>>
    /\ draws' = <<>>
    /\ stages' = <<>>
    /\ reads' = <<>>
    /\ UNCHANGED <<rng, stores, asked, hdr>>

Next == New \/ FillPos \/ ApplyGamma \/ Encode \/ Push

Spec == Init /\ [][Next]_vars

InitTwo == Init /\ params \in TwoParamSet

\* Params with a spread as large as the image is wide: a small image and one
\* of two rows so wide that its largest offsets are as long as Float has
\* steps in a unit (for f32 the like happens at offsets of 4096).
WideParamSet ==
    [dimensions : {Dimensions(3, 3), Dimensions(Scale + 1, 2)},
     spread : {Square(n) : n \in {0, 1, 2, Scale - 1, Scale}}
                \cup {QuarterCircle(n) : n \in {0, 1, 2, Scale - 1, Scale}},
     distance_power : {F(-1)},
     random_power : {F(2)},
     random_max : {Fin(0), Fin(Scale \div 4)},
     gamma : {F(2)},
     start_color : Palette,
     seed : {0}]

InitWide == params \in WideParamSet /\ Idle

SpecWide == InitWide /\ [][Next]_vars

NextTwo == Next \/ Again

SpecTwo == InitTwo /\ [][NextTwo]_vars

\* ------------------------------------- generate_with, on its machine words

\* Dimensions <<width, height>> of images from one pixel up to those whose
\* pixel array no longer has a length that fits 32 bits, all of fewer than
\* 2^33 pixels: 2^16 = <<0, 1, 0, 0>>, 2^32 = <<0, 0, 1, 0>>, and
\* 1431655764 = <<21844, 21845, 0, 0>>, whose row takes 2^32 - 4 bytes.
WordDims ==
    { <<Usize(1), Usize(1)>>, <<Usize(2), Usize(1)>>, <<Usize(3), Usize(2)>>,
      <<Usize(5), Usize(3)>>, <<Usize(640), Usize(480)>>,
      <<<<0, 1, 0, 0>>, Usize(2)>>, <<<<0, 1, 0, 0>>, <<0, 1, 0, 0>>>>,
      <<<<21844, 21845, 0, 0>>, Usize(1)>>,
      <<<<0, 0, 1, 0>>, Usize(1)>>, <<<<1, 0, 1, 0>>, Usize(1)>>,
      <<Usize(1), <<0, 0, 1, 0>>>> }

\* The state before generate_with reads the dimensions of the data.
InitWords ==
    /\ pc = "hdr_none"
    /\ pix = NoPixmap
    /\ params = NoParams
    /\ rng = FromSeed(0)
    /\ cursor = 0
    /\ bgr = <<>>
    /\ calls = <<>>
    /\ out = <<>>
    /\ result = NoResult
    /\ written = <<>>
    /\ draws = <<>>
    /\ stages = <<>>
    /\ stores = 0
    /\ runs = <<>>
    /\ reads = <<>>
    /\ asked = <<>>
    /\ hdr = NoHeader

\* let dim = self.data.dimensions(); let bgr = to_bgr_unchecked(): the
\* words dim.width, dim.height and bgr.len() of an image width * height,
\* whose rows take row_size = (width * 3).div_ceil(4) * 4 bytes each.
WordsEncode(width, height) ==
    /\ pc = "hdr_none"
    /\ \E tripled \in {UsizeMul(width, Usize(3))} :
       \E quarters \in {UsizeDivCeil(tripled, 4)} :
       \E row_size \in {UsizeMul(quarters, Usize(4))} :
          hdr' = [hdr EXCEPT !.width = width, !.height = height,
                             !.len = UsizeMul(row_size, height)]
    /\ pc' = "hdr_size"
    /\ UNCHANGED <<params, pix, rng, cursor, bgr, calls, out, result, written,
                   draws, stages, stores, runs, reads, asked>>

\* let size: u32 = 14 + 40 + bgr.len() as u32.  The sum may exceed u32: a
\* build with overflow checks panics, one without wraps.
WordsSize ==
    /\ pc = "hdr_size"
    /\ \E checks \in BOOLEAN :
          IF checks /\ U32Overflows(U32Add(U32Lit(14), U32Lit(40)),
                                    AsU32(hdr.len))
          THEN pc' = "hdr_panicked" /\ hdr' = hdr
          ELSE /\ hdr' = [hdr EXCEPT !.size =
                             U32Add(U32Add(U32Lit(14), U32Lit(40)),
                                    AsU32(hdr.len))]
               /\ pc' = "hdr_push"
    /\ UNCHANGED <<params, pix, rng, cursor, bgr, calls, out, result, written,
                   draws, stages, stores, runs, reads, asked>>

\* push(chunk)? for the 15 chunks of the header; the push of the pixel
\* array is left to come.
WordsPush ==
    /\ pc = "hdr_push"
    /\ \E answer \in {"Ok"} \cup SinkErrors :
          /\ calls' = Append(calls, answer)
          /\ out' = IF answer = "Ok"
                    THEN Append(out, HeaderChunk(Len(calls) + 1, hdr))
                    ELSE out
          /\ IF Continues(answer = "Ok")
             THEN /\ result' = result
                  /\ pc' = IF Len(calls) + 1 = NumChunks - 1
                           THEN "hdr_pixels" ELSE "hdr_push"
             ELSE result' = Propagate(answer) /\ pc' = "done"
    /\ UNCHANGED <<params, pix, rng, cursor, bgr, written, draws, stages,
                   stores, runs, reads, asked, hdr>>

NextWords ==
    \/ \E dim \in WordDims : WordsEncode(dim[1], dim[2])
    \/ WordsSize
    \/ WordsPush

SpecWords == InitWords /\ [][NextWords]_vars

\* ------------------------------------------------------------------ claims

\* The least multiple of 4 that is >= n.
LeastMultipleOf4(n) == CHOOSE m \in n .. n + 3 : m % 4 = 0

\* What the encoder makes of a channel in [0, 1]: round(c * 255).
ByteOf(c) == RoundDiv(c.v * 255, Scale)

\* C1: for w, h >= 1 the encoded rows are laid out one after the other, each
\* holding the blue, green, red bytes of its w pixels in order and then the
\* zero padding up to row_size, the least multiple of 4 that is >= 3 * w.
C1_RowLayout ==
    (pc = "pix_encoded" /\ pix.dimensions.width >= 1
        /\ pix.dimensions.height >= 1) =>
    LET w == pix.dimensions.width
        h == pix.dimensions.height
        row_size == LeastMultipleOf4(3 * w)
    IN /\ Len(bgr) = h * row_size
       /\ \A r \in 0 .. h - 1 :
            /\ \A x \in 0 .. w - 1 :
                 LET color == pix.data[r * w + x + 1]
                     at == r * row_size + 3 * x
                 IN /\ bgr[at + 1] = ByteOf(color.blue)
                    /\ bgr[at + 2] = ByteOf(color.green)
                    /\ bgr[at + 3] = ByteOf(color.red)
            /\ \A k \in r * row_size + 3 * w + 1 .. (r + 1) * row_size :
                 bgr[k] = 0

\* C8: to_bgr_unchecked returns h * row_size bytes, row_size being a multiple
\* of 4 with row_size - 3 * w in 0 .. 3: three bytes for every pixel and one
\* group of padding for every row.
C8_EncodedLength ==
    pc = "pix_encoded" =>
    LET w == pix.dimensions.width
        h == pix.dimensions.height
        row_size == LeastMultipleOf4(3 * w)
    IN /\ RowSize(w) = row_size
       /\ row_size - 3 * w \in 0 .. 3
       /\ Len(bgr) = h * row_size
       /\ Len(bgr) = 3 * Len(pix.data) + h * (row_size - 3 * w)

C8_Witness ==
    /\ pc = "pix_encoded"
    /\ pix.dimensions = Dimensions(3, 2)
    /\ Len(bgr) = 24

\* The positions inside the pixmap.
ValidPositions(pm) ==
    {Position(x, y) : x \in 0 .. pm.dimensions.width - 1,
                      y \in 0 .. pm.dimensions.height - 1}

\* C9: Pixmap::new(d) holds d.width * d.height colors, all black, and
\* pos_index maps the positions with x < width and y < height one-to-one
\* onto the indices 0 .. width * height - 1.
C9_SizeAndIndex ==
    pc \in {"pix", "pix_encoded", "pix_panicked"} =>
    LET n == pix.dimensions.width * pix.dimensions.height
    IN /\ Len(pix.data) = n
       /\ (stores = 0 => \A i \in 1 .. n : pix.data[i] = BLACK)
       /\ \A p \in ValidPositions(pix) : PosIndex(pix, p) \in 0 .. n - 1
       /\ \A p, q \in ValidPositions(pix) :
            PosIndex(pix, p) = PosIndex(pix, q) => p = q
       /\ {PosIndex(pix, p) : p \in ValidPositions(pix)} = 0 .. n - 1

C9_Witness ==
    /\ pc = "pix"
    /\ stores = 0
    /\ pix.dimensions = Dimensions(3, 2)
    /\ Len(pix.data) = 6
    /\ PosIndex(pix, Position(2, 1)) = 5

\* The four little-endian bytes of n and of -n (two's complement, n >= 1),
\* and the two of n.
LE32(n) ==
    <<n % 256, (n \div 256) % 256, (n \div 65536) % 256, n \div 16777216>>
NegLE32(n) == [i \in 1 .. 4 |-> 255 - LE32(n - 1)[i]]
LE16(n) == <<n % 256, n \div 256>>

\* The file of section 6, in the chunks of generate_with: the header of a
\* w * h image followed by the pixel data.
ExpectedChunks(w, h, pixels) ==
    << <<66, 77>>, LE32(14 + 40 + Len(pixels)), <<80, 76, 77, 71>>, LE32(54),
       LE32(40), LE32(w), NegLE32(h), LE16(1), LE16(24), LE32(0), LE32(0),
       LE32(96), LE32(96), LE32(0), LE32(0), pixels >>

RECURSIVE TotalLen(_)
TotalLen(chunks) ==
    IF chunks = <<>> THEN 0 ELSE Len(Head(chunks)) + TotalLen(Tail(chunks))

IsPrefix(a, b) == Len(a) <= Len(b) /\ a = SubSeq(b, 1, Len(a))

\* C2: the sink is called only after the fill pass, the gamma pass and the
\* encoding; the chunks it accepts are, in order, those of the file layout;
\* and a run in which it never fails ends after exactly 16 calls, the first
\* 15 chunks making up the 54 bytes that the offset field announces.
C2_SinkCalls ==
    /\ pc \in {"new", "fill", "gamma", "encode"} => calls = <<>>
    /\ pc \in {"push", "done"} =>
       LET expected == ExpectedChunks(pix.dimensions.width,
                                      pix.dimensions.height, bgr)
       IN /\ stages = <<"new", "fill", "gamma", "encode">>
          /\ cursor = Count(pix.dimensions)
          /\ IsPrefix(out, expected)
          /\ ((\A i \in 1 .. Len(calls) : calls[i] = "Ok") =>
                /\ Len(out) = Len(calls)
                /\ pc = "done" <=> Len(calls) = 16)
          /\ (result.kind = "Ok" =>
                /\ out = expected
                /\ TotalLen(SubSeq(out, 1, 15)) = 54
                /\ out[4] = <<54, 0, 0, 0>>)

C2_Witness ==
    /\ pc = "done"
    /\ result.kind = "Ok"
    /\ pix.dimensions = Dimensions(2, 2)
    /\ Len(out) = 16
    /\ Len(out[16]) = 16

\* C3: when the k-th call of the sink returns an error, generate_with returns
\* that error, calls the sink no more, and the sink has accepted exactly the
\* first k - 1 chunks of the file; generate_with returns Ok only when all 16
\* calls succeeded.
C3_ErrorPropagation ==
    LET n == Len(calls)
        expected == ExpectedChunks(pix.dimensions.width,
                                   pix.dimensions.height, bgr)
    IN /\ \A i \in 1 .. n - 1 : calls[i] = "Ok"
       /\ n <= 16
       /\ (n >= 1 /\ calls[n] # "Ok" =>
             /\ pc = "done"
             /\ result = [kind |-> "Err", err |-> calls[n]]
             /\ out = SubSeq(expected, 1, n - 1))
       /\ (result.kind = "Err" => n >= 1 /\ calls[n] = result.err)
       /\ (result.kind = "Ok" => n = 16 /\ \A i \in 1 .. n : calls[i] = "Ok")
       /\ (pc = "done" <=> result.kind # "none")

C3_Witness ==
    /\ pc = "done"
    /\ Len(calls) = 7
    /\ calls[7] = "BrokenPipe"
    /\ result = [kind |-> "Err", err |-> "BrokenPipe"]
    /\ Len(out) = 6

\* C4: Generator::new followed by generate_with never panics, whatever the
\* Params, zero-area dimensions included.
C4_NeverPanics == pc # "panicked"

\* A channel in [0, 1] (and so not NaN).
InUnit(c) == IsFin(c) /\ c.v >= 0 /\ c.v <= Scale

ColorInUnit(color) ==
    InUnit(color.red) /\ InUnit(color.green) /\ InUnit(color.blue)

\* C6: once the fill pass has completed, and again once the gamma pass has,
\* every channel of every pixel lies in [0, 1].
C6_ChannelBound ==
    pc \in {"gamma", "encode"} =>
    \A i \in 1 .. Len(pix.data) : ColorInUnit(pix.data[i])

\* C5: two runs of the generator on equal Params deliver the same bytes to
\* their sinks (the second sink may stop the run early: what it has accepted
\* is then the beginning of what the first accepted).
C5_Determinism ==
    \A i \in 1 .. Len(runs) :
        runs[i].params = params => IsPrefix(out, runs[i].out)

\* The i-th position (from 0) of a row-major walk of an image w wide.
RowMajor(w, i) == Position(i % w, i \div w)

\* The jitter that the draws at positions `at` (magnitude) and `at + 1`
\* (sign) of the stream of params.seed make.
Jitter(at) ==
    LET u == GenFloat([seed |-> params.seed, pos |-> at])
        positive == GenBool([seed |-> params.seed, pos |-> at + 1])
        m == FMul(FPowf(u, params.random_power), params.random_max)
    IN IF positive THEN m ELSE FNeg(m)

\* C7: the fill pass draws six values for every pixel it fills: the red
\* magnitude, the red sign, the green magnitude, the green sign, the blue
\* magnitude and the blue sign, the pixels in row-major order from the second
\* on; nothing else draws.  The i-th filled pixel (from 0) is made of the
\* draws 6i .. 6i+5, and a whole image takes 6 * (w * h - 1).
C7_DrawOrder ==
    pc \in {"fill", "gamma", "encode", "push", "done"} =>
    LET w == pix.dimensions.width
        h == pix.dimensions.height
        n == Len(written)
    IN /\ Len(draws) = 6 * n
       /\ rng.pos = 6 * n
       /\ (pc # "fill" => n = w * h - 1)
       /\ \A j \in 1 .. Len(draws) :
            draws[j] =
              [pixel |-> RowMajor(w, ((j - 1) \div 6) + 1),
               channel |-> <<"red", "red", "green", "green", "blue",
                             "blue">>[((j - 1) % 6) + 1],
               kind |-> <<"magnitude", "sign">>[((j - 1) % 2) + 1],
               at |-> j - 1]
       /\ (pc = "gamma" =>
             \A i \in 0 .. n - 1 :
                LET pos == RowMajor(w, i + 1)
                    avg == AvgNeighborUnchecked(pix, params.spread,
                                                params.distance_power, pos)
                    delta == Color(Jitter(6 * i), Jitter(6 * i + 2),
                                   Jitter(6 * i + 4))
                IN pix.data[i + 2] =
                     ColorClamp(ColorAdd(avg, delta), F(0), F(1)))

C7_Witness ==
    /\ pc = "gamma"
    /\ pix.dimensions = Dimensions(2, 2)
    /\ Len(draws) = 18
    /\ rng.pos = 18
    /\ draws[18] = [pixel |-> Position(1, 1), channel |-> "blue",
                    kind |-> "sign", at |-> 17]

\* C10: after Generator::new (0, 0) holds start_color and every other cell
\* is black; the fill pass never writes (0, 0), which still holds
\* start_color when the pass ends and start_color to the power gamma after
\* the gamma pass; a 1 x 1 image is filled without a write or a draw.
C10_SeedPixel ==
    pc \in {"fill", "gamma", "encode"} =>
    /\ (pc = "fill" /\ cursor = 0 =>
          \A i \in 2 .. Len(pix.data) : pix.data[i] = BLACK)
    /\ (pc \in {"fill", "gamma"} => pix.data[1] = params.start_color)
    /\ (pc = "encode" =>
          pix.data[1] = ColorPowf(params.start_color, params.gamma))
    /\ \A i \in 1 .. Len(written) : written[i] # ZERO
    /\ (pix.dimensions = Dimensions(1, 1) =>
          written = <<>> /\ draws = <<>> /\ rng.pos = 0)

C10_Witness ==
    /\ pc = "encode"
    /\ pix.dimensions = Dimensions(2, 2)
    /\ Len(written) = 3
    /\ pix.data[1] = ColorPowf(params.start_color, params.gamma)
    /\ pix.data[1] # params.start_color

\* The case of C11: one row of at least two pixels, the neighbors one step
\* away, no jitter, a start color in [0, 1].
SingleNeighbourCase ==
    /\ params.dimensions.width >= 2
    /\ params.dimensions.height = 1
    /\ params.spread = Square(1)
    /\ params.random_max = Fin(0)
    /\ ColorInUnit(params.start_color)

\* C11: in a run on one row of n >= 2 pixels with spread Square{width: 1},
\* random_max = 0 and a start color in [0, 1], every pixel (x, 0), x >= 1,
\* reads exactly one neighbor, (x - 1, 0), at distance 1; every pixel equals
\* start_color after the fill pass and start_color to the power gamma after
\* the gamma pass, whatever the seed.
C11_SingleNeighbour ==
    SingleNeighbourCase =>
    /\ \A i \in 1 .. Len(reads) :
          /\ Len(reads[i].got) = 1
          /\ reads[i].got[1].neighbor = PosSub(reads[i].pixel, Position(1, 0))
          /\ reads[i].got[1].dist = F(1)
    /\ (pc = "gamma" =>
          \A i \in 1 .. Len(pix.data) : pix.data[i] = params.start_color)
    /\ (pc = "encode" =>
          \A i \in 1 .. Len(pix.data) :
             pix.data[i] = ColorPowf(params.start_color, params.gamma))

RECURSIVE Flatten(_)
\* The bytes of a sequence of chunks, one after the other.
Flatten(chunks) ==
    IF chunks = <<>> THEN <<>> ELSE Head(chunks) \o Flatten(Tail(chunks))

\* The first 54 bytes a sink has accepted (fewer while the run is going on).
HeaderBytes(chunks) ==
    LET bytes == Flatten(chunks)
    IN SubSeq(bytes, 1, Min(54, Len(bytes)))

\* C12: the first 54 bytes generate_with writes depend on the dimensions
\* only: a second run with the same dimensions and any other fields of the
\* Params different writes the same 54 bytes as the first, the file size
\* field (bytes 3 to 6) included.
C12_HeaderIndependence ==
    \A i \in 1 .. Len(runs) :
        runs[i].params.dimensions = params.dimensions =>
        /\ Len(HeaderBytes(runs[i].out)) = 54
        /\ IsPrefix(HeaderBytes(out), HeaderBytes(runs[i].out))
        /\ (result.kind = "Ok" => HeaderBytes(out) = HeaderBytes(runs[i].out))

C12_Witness ==
    /\ pc = "done"
    /\ result.kind = "Ok"
    /\ Len(runs) = 1
    /\ params.dimensions = Dimensions(2, 1)
    /\ Differing(params, runs[1].params) = OtherFields
    /\ out[16] # runs[1].out[16]
    /\ SubSeq(HeaderBytes(out), 3, 6) = <<62, 0, 0, 0>>
    /\ HeaderBytes(out) = HeaderBytes(runs[1].out)

\* A position inside an image of dimensions d.
Inside(d, pos) == pos.x \in 0 .. d.width - 1 /\ pos.y \in 0 .. d.height - 1

\* C13: for every position the fill pass computes, every offset that
\* avg_neighbor_unchecked walks is at most the position in both axes, so
\* pos - delta does not underflow and every neighbor read through
\* get_unchecked lies inside the image (and its index inside the buffer);
\* the write of fill_pos_unchecked lies inside the image as well.
C13_InBoundsReads ==
    /\ Len(reads) = Len(written)
    /\ \A i \in 1 .. Len(reads) :
          LET pos == reads[i].pixel
          IN /\ written[i] = pos
             /\ Inside(pix.dimensions, pos)
             /\ pos.y * pix.dimensions.width + pos.x
                    \in 0 .. Count(pix.dimensions) - 1
             /\ \A k \in 1 .. Len(reads[i].offsets) :
                   /\ reads[i].offsets[k].x <= pos.x
                   /\ reads[i].offsets[k].y <= pos.y
             /\ \A k \in 1 .. Len(reads[i].got) :
                   LET delta == reads[i].got[k].delta
                       neighbor == reads[i].got[k].neighbor
                   IN /\ neighbor.x = pos.x - delta.x /\ neighbor.x >= 0
                      /\ neighbor.y = pos.y - delta.y /\ neighbor.y >= 0
                      /\ Inside(pix.dimensions, neighbor)
                      /\ neighbor.y * pix.dimensions.width + neighbor.x
                             \in 0 .. Count(pix.dimensions) - 1

C13_Witness ==
    /\ pc = "gamma"
    /\ pix.dimensions = Dimensions(2, 2)
    /\ params.spread = Square(2)
    /\ Len(reads) = 3
    /\ reads[3].pixel = Position(1, 1)
    /\ Len(reads[3].offsets) = 4
    /\ Len(reads[3].got) = 3
    /\ reads[1].offsets = <<Position(0, 0), Position(1, 0)>>

\* C14: the fill pass visits the positions in row-major order and writes
\* every position but (0, 0) exactly once; every neighbor it reads for the
\* pixel at pos is (0, 0) or a pixel it wrote in an earlier iteration, never
\* a cell that still holds its initial black and never pos itself.
C14_ReadAfterWrite ==
    pc \in {"fill", "gamma", "encode", "push", "done"} =>
    LET w == pix.dimensions.width
        h == pix.dimensions.height
    IN /\ Len(written) = (IF cursor = 0 THEN 0 ELSE cursor - 1)
       /\ (pc # "fill" => cursor = w * h)
       /\ \A i \in 1 .. Len(written) :
             /\ written[i] = Position(i % w, i \div w)
             /\ written[i] # ZERO
             /\ reads[i].pixel = written[i]
             /\ \A j \in 1 .. Len(written) : written[j] = written[i] => j = i
             /\ \A k \in 1 .. Len(reads[i].got) :
                   LET neighbor == reads[i].got[k].neighbor
                   IN /\ neighbor # written[i]
                      /\ \/ neighbor = ZERO
                         \/ \E j \in 1 .. i - 1 : written[j] = neighbor
       /\ (pc # "fill" =>
             {written[i] : i \in 1 .. Len(written)} \cup {ZERO}
                = {Position(x, y) : x \in 0 .. w - 1, y \in 0 .. h - 1})

C14_Witness ==
    /\ pc = "gamma"
    /\ pix.dimensions = Dimensions(2, 2)
    /\ params.spread = QuarterCircle(1)
    /\ written = <<Position(1, 0), Position(0, 1), Position(1, 1)>>
    /\ Len(reads[3].got) = 2
    /\ reads[3].got[1].neighbor = Position(0, 1)
    /\ reads[3].got[2].neighbor = Position(1, 0)

\* The nonzero offsets of the window of spread size S at pos.
Box(S, pos) ==
    {Position(dx, dy) : dx \in 0 .. Min(S, pos.x), dy \in 0 .. Min(S, pos.y)}
        \ {ZERO}

\* The offsets a read of the fill pass used, and each of them used once.
GotOffsets(read) == {read.got[k].delta : k \in 1 .. Len(read.got)}
GotOnce(read) == Cardinality(GotOffsets(read)) = Len(read.got)

WithinRounded(d, S) ==
    4 * (d.x * d.x + d.y * d.y) * Scale * Scale
        < (2 * Scale * S + 1) * (2 * Scale * S + 1)

C16_DegenerateAverage ==
    \A i \in 1 .. Len(reads) :
        /\ reads[i].pixel # ZERO
        /\ (reads[i].got = <<>>) <=> (params.spread.size = 0)
        /\ (reads[i].got = <<>> =>
              /\ reads[i].count = Fin(0)
              /\ reads[i].avg = Color(NaN, NaN, NaN))
        /\ (params.spread.size >= 1 =>
              /\ Len(reads[i].got) >= 1
              /\ \E k \in 1 .. Len(reads[i].got) :
                    reads[i].got[k].dist = F(1))

C16_Witness ==
    /\ pc = "gamma"
    /\ params.spread = QuarterCircle(0)
    /\ pix.dimensions = Dimensions(2, 2)
    /\ Len(reads) = 3
    /\ reads[3].offsets = <<ZERO>>
    /\ reads[3].got = <<>>
    /\ reads[3].avg = Color(NaN, NaN, NaN)
    /\ IsNaN(pix.data[4].red)

\* The steps of a run, in the order generate_with takes them.
PassOrder == <<"new", "fill", "gamma", "encode">>

\* Where the encoder puts the first byte of the i-th pixel (from 1) of an
\* image w wide, counted from 1.
ByteAt(w, i) ==
    LET x == (i - 1) % w
        r == (i - 1) \div w
    IN r * RowSize(w) + 3 * x
         + (IF x = w - 1 THEN RowSize(w) - 3 * w ELSE 0) + 1

\* One step of a run, as C17 has it.
PassOrderStep ==
    /\ IsPrefix(stages', PassOrder)
    /\ Len(stages') \in {Len(stages), Len(stages) + 1}
    /\ (Len(stages) = 1 /\ pix' # pix =>
          /\ pc = "fill"
          /\ \E i \in 2 .. Len(pix.data) :
                \A j \in 1 .. Len(pix.data) :
                    j # i => pix'.data[j] = pix.data[j])
    /\ (Len(stages) = 2 =>
          /\ pc = "gamma"
          /\ cursor = Count(pix.dimensions)
          /\ Len(written) = Count(pix.dimensions) - 1
          /\ stages' = SubSeq(PassOrder, 1, 3)
          /\ pix'.dimensions = pix.dimensions
          /\ Len(pix'.data) = Count(pix.dimensions)
          /\ \A i \in 1 .. Len(pix.data) :
                /\ pix'.data[i].red = FPowf(pix.data[i].red, params.gamma)
                /\ pix'.data[i].green = FPowf(pix.data[i].green, params.gamma)
                /\ pix'.data[i].blue = FPowf(pix.data[i].blue, params.gamma))
    /\ (Len(stages) = 3 =>
          /\ pc = "encode"
          /\ stages' = PassOrder
          /\ \A i \in 1 .. Len(pix.data) :
                ColorInUnit(pix.data[i]) =>
                LET at == ByteAt(pix.dimensions.width, i)
                IN /\ bgr'[at] = ByteOf(pix.data[i].blue)
                   /\ bgr'[at + 1] = ByteOf(pix.data[i].green)
                   /\ bgr'[at + 2] = ByteOf(pix.data[i].red))
    /\ (Len(stages) = 4 => stages' = stages /\ pix' = pix /\ bgr' = bgr)
    /\ (Len(stages) < 3 => bgr' = <<>> /\ calls' = <<>>)

\* C17: the gamma pass starts only after the fill pass has written its last
\* pixel, runs exactly once and raises every pixel, (0, 0) included, to the
\* power gamma exactly once; no pixel is encoded before it has been gamma
\* corrected, and none is gamma corrected before it has been filled.
C17_PassOrder == [][PassOrderStep]_vars

C17_Witness ==
    /\ pc = "push"
    /\ stages = PassOrder
    /\ pix.dimensions = Dimensions(2, 2)
    /\ params.spread.size = 1
    /\ params.gamma = F(2)
    /\ Len(written) = 3
    /\ bgr[1] = ByteOf(FPowf(params.start_color.blue, params.gamma))
    /\ bgr[3] = ByteOf(FPowf(params.start_color.red, params.gamma))
    /\ bgr[3] # ByteOf(params.start_color.red)

\* A 32-bit field read back from its four bytes, as a number of 64 bits.
FieldValue(bytes) ==
    <<bytes[1] + 256 * bytes[2], bytes[3] + 256 * bytes[4], 0, 0>>

\* n + 54 for a number n of 64 bits held in limbs (no carry out of the top).
Plus54(n) ==
    LET c1 == (n[1] + 54) \div Limb
        c2 == (n[2] + c1) \div Limb
        c3 == (n[3] + c2) \div Limb
    IN <<(n[1] + 54) % Limb, (n[2] + c1) % Limb, (n[3] + c2) % Limb,
         n[4] + c3>>

\* The two's complement of a height that fits 32 bits, as 32 bits.
Negated(n) ==
    IF n[1] = 0 /\ n[2] = 0 THEN <<0, 0, 0, 0>>
    ELSE IF n[1] = 0 THEN <<0, Limb - n[2], 0, 0>>
    ELSE <<Limb - n[1], Limb - 1 - n[2], 0, 0>>

\* C18: whatever the dimensions, the size field of the header is
\* 14 + 40 + the length of the pixel array, the width field is the width and
\* the height field is the two's complement of the height; no truncation to
\* 32 bits and no wrap-around of the sum alters them (and the sum does not
\* stop the run).
C18_HeaderFields ==
    /\ pc # "hdr_panicked"
    /\ (pc = "hdr_pixels" =>
          /\ FieldValue(out[2]) = Plus54(hdr.len)
          /\ FieldValue(out[6]) = hdr.width
          /\ hdr.height[3] = 0 /\ hdr.height[4] = 0
          /\ FieldValue(out[7]) = Negated(hdr.height))

\* A store through IndexMut at a position with x >= width or y >= height.
StoreOutside ==
    /\ asked' # asked
    /\ asked'[Len(asked')] \notin ValidPositions(pix)

\* C19: pm[pos] = c with pos.x >= width or pos.y >= height panics and
\* modifies no cell; in particular it never writes the cell of another,
\* valid position.
C19_CheckedStep == StoreOutside => pc' = "pix_panicked" /\ pix' = pix

C19_CheckedAccess == [][C19_CheckedStep]_vars

====
